---- MODULE Spec2Model ----
(* The flight-delay inference service (app/app.py) and its load-test script      *)
(* (tests/locust_test.py) as a state machine: the startup load of the model      *)
(* bundle, and per connection one HTTP request moving through request            *)
(* validation, the predict handler's statements and the response.                *)
EXTENDS Integers, Sequences, FiniteSets, TLC

VARIABLES artifact, phase, model_data, model, loads, req

vars == <<artifact, phase, model_data, model, loads, req>>

(* ------------------------------------------------------------------ values *)
(* A Python / JSON value. An int is unbounded in Python: its value is           *)
(* w * 2^64 + n. A float carries n in hundredths.                               *)
PyInt(k) == [py |-> "int", w |-> 0, n |-> k, s |-> ""]
PyStr(t) == [py |-> "str", w |-> 0, n |-> 0, s |-> t]
PyFloat(h) == [py |-> "float", w |-> 0, n |-> h, s |-> ""]
PyNone == [py |-> "NoneType", w |-> 0, n |-> 0, s |-> ""]
PyNaN == [py |-> "float", w |-> 0, n |-> 0, s |-> "nan"]
(* 2^64, the smallest int no 64-bit numpy dtype holds. *)
HugeInt == [py |-> "int", w |-> 1, n |-> 0, s |-> ""]

EmptyDict == << >>

(* ------------------------------------------------------------------ schema *)
Fields == <<"DIA", "MES", "DIANOM", "TIPOVUELO", "OPERA", "SIGLADES", "TEMPORADAALTA", "PERIODODIA">>

FieldSet == {Fields[i] : i \in 1..Len(Fields)}

FieldType(f) ==
  CASE f = "DIA" -> "int"
    [] f = "MES" -> "int"
    [] f = "DIANOM" -> "str"
    [] f = "TIPOVUELO" -> "str"
    [] f = "OPERA" -> "str"
    [] f = "SIGLADES" -> "str"
    [] f = "TEMPORADAALTA" -> "int"
    [] f = "PERIODODIA" -> "str"

(* TEMPORADAALTA declared with a default (Optional[int] = None). *)
RequiredSeasonDefaulted == FieldSet \ {"TEMPORADAALTA"}

(* FlightInformation declares no default: every field is required. *)
Required == FieldSet

(* The fields predict re-expresses as pd.Categorical, in statement order. *)
CatFields == <<"DIA", "MES", "DIANOM", "TIPOVUELO", "OPERA", "SIGLADES", "PERIODODIA">>

CatFieldSet == {CatFields[i] : i \in 1..Len(CatFields)}

(* The MES assignment pasted from the DIA one, its key not renamed. *)
CatKeyCopyPaste(f) ==
  CASE f = "DIA" -> "dia_values"
    [] f = "MES" -> "dia_values"
    [] f = "DIANOM" -> "dianom_values"
    [] f = "TIPOVUELO" -> "tipovuelo_values"
    [] f = "OPERA" -> "opera_values"
    [] f = "SIGLADES" -> "siglades_values"
    [] f = "PERIODODIA" -> "periododia_values"

CatKey(f) ==
  CASE f = "DIA" -> "dia_values"
    [] f = "MES" -> "mes_values"
    [] f = "DIANOM" -> "dianom_values"
    [] f = "TIPOVUELO" -> "tipovuelo_values"
    [] f = "OPERA" -> "opera_values"
    [] f = "SIGLADES" -> "siglades_values"
    [] f = "PERIODODIA" -> "periododia_values"

(* ------------------------------------------------------------ load testing *)
(* The payload with its season flag sent as null. *)
test_request_null_season ==
  [DIA |-> PyInt(13), MES |-> PyInt(9), DIANOM |-> PyStr("Miercoles"),
   TIPOVUELO |-> PyStr("N"), OPERA |-> PyStr("Grupo LATAM"),
   SIGLADES |-> PyStr("Arica"), TEMPORADAALTA |-> PyNone,
   PERIODODIA |-> PyStr("noche")]

test_request ==
  [DIA |-> PyInt(13), MES |-> PyInt(9), DIANOM |-> PyStr("Miercoles"),
   TIPOVUELO |-> PyStr("N"), OPERA |-> PyStr("Grupo LATAM"),
   SIGLADES |-> PyStr("Arica"), TEMPORADAALTA |-> PyInt(1),
   PERIODODIA |-> PyStr("noche")]

(* wait_time = between(1, 3), in whole seconds. *)
between_min == 1
between_max == 3
between(lo, hi) == lo..hi
wait_time == between(between_min, between_max)

(* --------------------------------------------------------- request bodies *)
(* What a client may put in a field: the load-test payload's value first, then  *)
(* other values of the field's type; or JSON null; or nothing at all (the key   *)
(* is left out).                                                                *)
Values(f) ==
  CASE f = "DIA" -> <<PyInt(13), PyInt(14), PyInt(32), PyInt(0)>>
    [] f = "MES" -> <<PyInt(9), PyInt(10), PyInt(13), PyInt(0)>>
    [] f = "DIANOM" -> <<PyStr("Miercoles"), PyStr("Jueves"), PyStr("Someday"), PyStr("")>>
    [] f = "TIPOVUELO" -> <<PyStr("N"), PyStr("I"), PyStr("X"), PyStr("")>>
    [] f = "OPERA" -> <<PyStr("Grupo LATAM"), PyStr("Sky Airline"), PyStr("Unknown Air"), PyStr("")>>
    [] f = "SIGLADES" -> <<PyStr("Arica"), PyStr("Lima"), PyStr("Atlantis"), PyStr("")>>
    [] f = "TEMPORADAALTA" -> <<PyInt(1), PyInt(0), HugeInt, PyInt(7)>>
    [] f = "PERIODODIA" -> <<PyStr("noche"), PyStr("tarde"), PyStr("never"), PyStr("")>>

(* How many of a field's values the clients draw from. *)
MaxValues == 3

Universe(f) == {Values(f)[i] : i \in {j \in 1..Len(Values(f)) : j <= MaxValues}}

Absent == [py |-> "absent", w |-> 0, n |-> 0, s |-> ""]

Alternatives(f) == (Universe(f) \ {test_request[f]}) \cup {PyNone, Absent}

(* A body is the load-test payload, or the payload with one field replaced or   *)
(* left out.                                                                    *)
Replace(f, v) ==
  [g \in (IF v = Absent THEN FieldSet \ {f} ELSE FieldSet) |->
     IF g = f THEN v ELSE test_request[g]]

Bodies ==
  {test_request} \cup UNION {{Replace(f, v) : v \in Alternatives(f)} : f \in FieldSet}

(* ------------------------------------------------------------ model bundle *)
(* The pickled artifact: a classifier and seven ordered category lists. The     *)
(* classifier is a pretrained tree: one categorical split (a missing code goes  *)
(* right), one numerical split, and a raw score per leaf.                       *)
Bundle1 ==
  [trained_model |->
     [cat_feature |-> "OPERA", cat_left |-> {0}, num_feature |-> "TEMPORADAALTA",
      num_threshold |-> 0, leaf |-> [ll |-> -2, lr |-> -1, rl |-> 1, rr |-> 2]],
   dia_values |-> <<PyInt(13), PyInt(14)>>,
   mes_values |-> <<PyInt(9), PyInt(10)>>,
   dianom_values |-> <<PyStr("Miercoles"), PyStr("Jueves")>>,
   tipovuelo_values |-> <<PyStr("N"), PyStr("I")>>,
   opera_values |-> <<PyStr("Grupo LATAM"), PyStr("Sky Airline")>>,
   siglades_values |-> <<PyStr("Arica"), PyStr("Lima")>>,
   periododia_values |-> <<PyStr("noche"), PyStr("tarde")>>]

Bundle2 ==
  [trained_model |->
     [cat_feature |-> "DIA", cat_left |-> {0}, num_feature |-> "TEMPORADAALTA",
      num_threshold |-> 0, leaf |-> [ll |-> 0, lr |-> 2, rl |-> -1, rr |-> 1]],
   dia_values |-> <<PyInt(14), PyInt(13)>>,
   mes_values |-> <<PyInt(10)>>,
   dianom_values |-> <<PyStr("Jueves"), PyStr("Miercoles")>>,
   tipovuelo_values |-> <<PyStr("I"), PyStr("N")>>,
   opera_values |-> <<PyStr("Sky Airline")>>,
   siglades_values |-> <<PyStr("Lima"), PyStr("Arica")>>,
   periododia_values |-> <<PyStr("tarde"), PyStr("noche")>>]

Bundles == {Bundle1, Bundle2}

(* The file at /app/flight_delays_lgb_model.pkl when the process starts. *)
Artifacts ==
  {[state |-> "ok", bundle |-> b] : b \in Bundles}
    \cup {[state |-> "missing", bundle |-> EmptyDict],
          [state |-> "unreadable", bundle |-> EmptyDict]}

(* ------------------------------------------------------ request validation *)
(* pydantic: a required field must be present and hold a value of its type.     *)
(* Over the values clients send here (ints, non-numeric strs, null) an int      *)
(* field takes exactly the ints and a str field exactly the strs.               *)
FieldOk(body, f) ==
  IF f \in DOMAIN body THEN body[f].py = FieldType(f) ELSE f \notin Required

SchemaValid(body) == \A f \in FieldSet : FieldOk(body, f)

(* payload.dict(): every declared field, a field left out holding its default. *)
PayloadDict(body) == [f \in FieldSet |-> IF f \in DOMAIN body THEN body[f] ELSE PyNone]

(* ----------------------------------------------------------------- pandas *)
(* The dtype pandas infers for a one-row column: an int that fits 64 bits is    *)
(* int64, any other Python object (a str, an int beyond 64 bits) is object.     *)
InferDtype(v) ==
  CASE v.py = "int" /\ v.w = 0 -> "int64"
    [] v.py = "float" -> "float64"
    [] OTHER -> "object"

(* request_df = pd.DataFrame([payload.dict()]): one row, one column per key. *)
DataFrame(row) ==
  [dtypes |-> [f \in DOMAIN row |-> InferDtype(row[f])],
   values |-> row,
   cat |-> EmptyDict]

NoFrame == [dtypes |-> EmptyDict, values |-> EmptyDict, cat |-> EmptyDict]

(* The code pd.Categorical gives a value that is not among the categories. *)
MissingCode == -1

Positions(v, categories) == {i \in 1..Len(categories) : categories[i] = v}

Min(S) == CHOOSE i \in S : \A j \in S : i <= j

(* pd.Categorical(values, categories=...): the zero-based position of the value *)
(* in the categories, or the missing code.                                      *)
Categorical(v, categories) ==
  [categories |-> categories,
   code |-> IF Positions(v, categories) = {} THEN MissingCode
            ELSE Min(Positions(v, categories)) - 1]

(* request_df[f] = pd.Categorical(request_df[f], categories=categories) *)
SetCategorical(df, f, categories) ==
  [dtypes |-> [df.dtypes EXCEPT ![f] = "category"],
   values |-> [df.values EXCEPT ![f] =
                 IF Positions(@, categories) = {} THEN PyNaN ELSE @],
   cat |-> [g \in DOMAIN df.cat \cup {f} |->
              IF g = f THEN Categorical(df.values[f], categories) ELSE df.cat[g]]]

RECURSIVE AlignFrom(_, _, _)
AlignFrom(df, md, i) ==
  IF i > Len(CatFields) THEN df
  ELSE AlignFrom(SetCategorical(df, CatFields[i], md[CatKey(CatFields[i])]), md, i + 1)

(* The seven assignments of predict, in order. *)
AlignAll(df, md) == AlignFrom(df, md, 1)

(* -------------------------------------------------------------- classifier *)
NumericDtypes == {"int64", "uint64", "float64", "bool", "category"}

(* What the classifier sees: a categorical column as its code, any other as    *)
(* its number.                                                                 *)
EncodedRow(df) ==
  [f \in DOMAIN df.values |->
     IF f \in DOMAIN df.cat THEN df.cat[f].code ELSE df.values[f].n]

(* The logistic function, in hundredths. *)
Sigmoid(raw) ==
  CASE raw <= -2 -> 12
    [] raw = -1 -> 27
    [] raw = 0 -> 50
    [] raw = 1 -> 73
    [] raw >= 2 -> 88

Leaf(m, row) ==
  IF row[m.cat_feature] \in m.cat_left
  THEN (IF row[m.num_feature] <= m.num_threshold THEN m.leaf.ll ELSE m.leaf.lr)
  ELSE (IF row[m.num_feature] <= m.num_threshold THEN m.leaf.rl ELSE m.leaf.rr)

(* model.predict_proba(request_df): a frame with a non-numeric column is        *)
(* refused; otherwise one row <<P(not delayed), P(delayed)>>, in hundredths.    *)
predict_proba(m, df) ==
  IF \E f \in DOMAIN df.dtypes : df.dtypes[f] \notin NumericDtypes
  THEN [raised |-> TRUE, proba |-> << >>]
  ELSE [raised |-> FALSE,
        proba |-> << <<100 - Sigmoid(Leaf(m, EncodedRow(df))),
                       Sigmoid(Leaf(m, EncodedRow(df)))>> >>]

(* --------------------------------------------------------------- responses *)
NoResp == [status |-> 0, body |-> EmptyDict]

(* home() without its model_version key. *)
HomeBodyNoVersion == [message |-> PyStr("Flight Delays API")]

HomeBody == [message |-> PyStr("Flight Delays API"), model_version |-> PyFloat(10)]

Ok(body) == [status |-> 200, body |-> body]

UnprocessableEntity == [status |-> 422, body |-> [detail |-> PyStr("validation error")]]

InternalServerError == [status |-> 500, body |-> [detail |-> PyStr("Internal Server Error")]]

(* result = {"delay_proba": prediction}, prediction = predict_proba(...)[0, 1] *)
PredictResult(out) ==
  IF out.raised THEN InternalServerError
  ELSE Ok([delay_proba |-> PyFloat(out.proba[1][2])])

(* ------------------------------------------------------------------- state *)
(* artifact    the model file on disk when the process starts                   *)
(* phase       "boot" until the module body has run, then "serving" or "crashed"*)
(* model_data  the module-level dict; model the module-level classifier         *)
(* loads       how many times joblib.load has returned                          *)
(* req[c]      the request on connection c and how far the server has taken it  *)
Clients == {"c1", "c2"}

NoReq ==
  [pc |-> "idle", origin |-> "", method |-> "", path |-> "", body |-> EmptyDict,
   payload |-> EmptyDict, request_df |-> NoFrame, calls |-> {}, resp |-> NoResp,
   wait |-> 0]

Init ==
  /\ artifact \in Artifacts
  /\ phase = "boot"
  /\ model_data = EmptyDict
  /\ model = EmptyDict
  /\ loads = 0
  /\ req = [c \in Clients |-> NoReq]

(* The load wrapped in try/except: the app starts whatever joblib.load did. *)
LoadSwallowing ==
  /\ phase = "boot"
  /\ IF artifact.state = "ok"
     THEN /\ model_data' = artifact.bundle
          /\ model' = artifact.bundle.trained_model
          /\ loads' = loads + 1
     ELSE UNCHANGED <<model_data, model, loads>>
  /\ phase' = "serving"
  /\ UNCHANGED <<artifact, req>>

(* Module body: model_data = {}; model_data = joblib.load(...);                *)
(* model = model_data["trained_model"]; app = FastAPI(). joblib.load raises on *)
(* a missing or unreadable file and the import fails.                          *)
Load ==
  /\ phase = "boot"
  /\ IF artifact.state = "ok"
     THEN /\ model_data' = artifact.bundle
          /\ model' = artifact.bundle.trained_model
          /\ loads' = loads + 1
          /\ phase' = "serving"
     ELSE /\ phase' = "crashed"
          /\ UNCHANGED <<model_data, model, loads>>
  /\ UNCHANGED <<artifact, req>>

(* ----------------------------------------------------------------- clients *)
Request(origin, method, path, body) ==
  [NoReq EXCEPT !.pc = "pending", !.origin = origin, !.method = method,
                !.path = path, !.body = body]

SendHome(c) ==
  /\ req[c].pc = "idle"
  /\ req' = [req EXCEPT ![c] = Request("client", "GET", "/", EmptyDict)]
  /\ UNCHANGED <<artifact, phase, model_data, model, loads>>

SendPredict(c) ==
  /\ req[c].pc = "idle"
  /\ \E body \in Bodies :
       req' = [req EXCEPT ![c] = Request("client", "POST", "/predict", body)]
  /\ UNCHANGED <<artifact, phase, model_data, model, loads>>

(* PerformanceTests.predict: self.client.post("/predict", json=test_request),  *)
(* the user's first task or the one after its wait.                            *)
LocustPredict(c) ==
  /\ req[c].pc \in {"idle", "waiting"}
  /\ req' = [req EXCEPT ![c] = Request("locust", "POST", "/predict", test_request)]
  /\ UNCHANGED <<artifact, phase, model_data, model, loads>>

(* The client reads its response; a simulated user then draws its wait_time. *)
Receive(c) ==
  /\ req[c].pc = "responded"
  /\ IF req[c].origin = "locust"
     THEN \E w \in wait_time :
            req' = [req EXCEPT ![c] = [NoReq EXCEPT !.pc = "waiting",
                                                    !.origin = "locust", !.wait = w]]
     ELSE req' = [req EXCEPT ![c] = NoReq]
  /\ UNCHANGED <<artifact, phase, model_data, model, loads>>

(* ------------------------------------------------------------------ server *)
(* @app.get("/") def home() *)
Home(c) ==
  /\ phase = "serving"
  /\ req[c].pc = "pending"
  /\ req[c].method = "GET" /\ req[c].path = "/"
  /\ req' = [req EXCEPT ![c].pc = "responded",
                        ![c].calls = @ \cup {"home"},
                        ![c].resp = Ok(HomeBody)]
  /\ UNCHANGED <<artifact, phase, model_data, model, loads>>

(* @app.post("/predict"): the body is validated against FlightInformation     *)
(* before predict is called; an invalid body is answered 422.                  *)
Validate(c) ==
  /\ phase = "serving"
  /\ req[c].pc = "pending"
  /\ req[c].method = "POST" /\ req[c].path = "/predict"
  /\ IF SchemaValid(req[c].body)
     THEN req' = [req EXCEPT ![c].pc = "handler",
                             ![c].calls = @ \cup {"predict"},
                             ![c].payload = PayloadDict(req[c].body)]
     ELSE req' = [req EXCEPT ![c].pc = "responded",
                             ![c].resp = UnprocessableEntity]
  /\ UNCHANGED <<artifact, phase, model_data, model, loads>>

(* request_df = pd.DataFrame([payload.dict()]) *)
BuildFrame(c) ==
  /\ phase = "serving"
  /\ req[c].pc = "handler"
  /\ req' = [req EXCEPT ![c].pc = "framed",
                        ![c].request_df = DataFrame(req[c].payload)]
  /\ UNCHANGED <<artifact, phase, model_data, model, loads>>

(* request_df as a module-level global: an invocation reads the frame another  *)
(* invocation in the handler has stored there.                                 *)
SharedFrame(c) ==
  IF \E d \in Clients \ {c} : req[d].pc \in {"framed", "aligned"}
  THEN req[CHOOSE d \in Clients \ {c} : req[d].pc \in {"framed", "aligned"}].request_df
  ELSE req[c].request_df

(* The frame the running invocation of predict works on: its own local. *)
FrameOf(c) == req[c].request_df

Reverse(seq) == [i \in 1..Len(seq) |-> seq[Len(seq) + 1 - i]]

(* The handler reversing the stored category lists in place (list.reverse())   *)
(* after using them.                                                           *)
AlignReversing(c) ==
  /\ phase = "serving"
  /\ req[c].pc = "framed"
  /\ req' = [req EXCEPT ![c].pc = "aligned",
                        ![c].request_df = AlignAll(req[c].request_df, model_data)]
  /\ model_data' = [k \in DOMAIN model_data |->
                      IF k = "trained_model" THEN model_data[k]
                      ELSE Reverse(model_data[k])]
  /\ UNCHANGED <<artifact, phase, model, loads>>

(* request_df[f] = pd.Categorical(request_df[f], categories=model_data[...]),  *)
(* for the seven fields.                                                       *)
Align(c) ==
  /\ phase = "serving"
  /\ req[c].pc = "framed"
  /\ req' = [req EXCEPT ![c].pc = "aligned",
                        ![c].request_df = AlignAll(FrameOf(c), model_data)]
  /\ UNCHANGED <<artifact, phase, model_data, model, loads>>

(* The bundle loaded again by every call of predict. *)
ClassifyReloading(c) ==
  /\ phase = "serving"
  /\ req[c].pc = "aligned"
  /\ req' = [req EXCEPT ![c].pc = "responded",
                        ![c].calls = @ \cup {"predict_proba"},
                        ![c].resp = PredictResult(predict_proba(model, req[c].request_df))]
  /\ model_data' = artifact.bundle
  /\ model' = artifact.bundle.trained_model
  /\ loads' = loads + 1
  /\ UNCHANGED <<artifact, phase>>

(* prediction = model.predict_proba(request_df)[0, 1];                         *)
(* return {"delay_proba": prediction}. An exception is answered 500.           *)
Classify(c) ==
  /\ phase = "serving"
  /\ req[c].pc = "aligned"
  /\ req' = [req EXCEPT ![c].pc = "responded",
                        ![c].calls = @ \cup {"predict_proba"},
                        ![c].resp = PredictResult(predict_proba(model, FrameOf(c)))]
  /\ UNCHANGED <<artifact, phase, model_data, model, loads>>

Next ==
  \/ Load
  \/ \E c \in Clients : SendHome(c)
  \/ \E c \in Clients : SendPredict(c)
  \/ \E c \in Clients : LocustPredict(c)
  \/ \E c \in Clients : Receive(c)
  \/ \E c \in Clients : Home(c)
  \/ \E c \in Clients : Validate(c)
  \/ \E c \in Clients : BuildFrame(c)
  \/ \E c \in Clients : Align(c)
  \/ \E c \in Clients : Classify(c)

Spec == Init /\ [][Next]_vars

(* ------------------------------------------------------------- properties *)
IsPredictRequest(r) == r.method = "POST" /\ r.path = "/predict"

IsHomeRequest(r) == r.method = "GET" /\ r.path = "/"

EightFields ==
  {"DIA", "MES", "DIANOM", "TIPOVUELO", "OPERA", "SIGLADES", "TEMPORADAALTA", "PERIODODIA"}

(* The body holds all eight fields, each of its declared type. *)
WellTyped(body) ==
  /\ DOMAIN body = EightFields
  /\ \A f \in {"DIA", "MES", "TEMPORADAALTA"} : body[f].py = "int"
  /\ \A f \in {"DIANOM", "TIPOVUELO", "OPERA", "SIGLADES", "PERIODODIA"} : body[f].py = "str"

(* The bundle's stored list for a categorical field. *)
StoredList(f) ==
  CASE f = "DIA" -> model_data.dia_values
    [] f = "MES" -> model_data.mes_values
    [] f = "DIANOM" -> model_data.dianom_values
    [] f = "TIPOVUELO" -> model_data.tipovuelo_values
    [] f = "OPERA" -> model_data.opera_values
    [] f = "SIGLADES" -> model_data.siglades_values
    [] f = "PERIODODIA" -> model_data.periododia_values

InList(v, f) == \E i \in 1..Len(StoredList(f)) : StoredList(f)[i] = v

SevenFields == EightFields \ {"TEMPORADAALTA"}

IsProbability(v) == v.py = "float" /\ v.s # "nan" /\ v.w = 0 /\ v.n >= 0 /\ v.n <= 100

(* C1: a POST /predict whose body lacks one of the eight required fields is     *)
(* answered with a validation error: predict is never entered, the classifier   *)
(* never invoked and no delay_proba returned.                                   *)
MissingFieldRejected ==
  \A c \in Clients :
    (IsPredictRequest(req[c]) /\ EightFields \ DOMAIN req[c].body # {}) =>
      /\ req[c].pc \in {"pending", "responded"}
      /\ req[c].calls = {}
      /\ req[c].pc = "responded" =>
           /\ req[c].resp.status = 422
           /\ "delay_proba" \notin DOMAIN req[c].resp.body

MissingFieldRejectedWitness ==
  \E c \in Clients :
    /\ IsPredictRequest(req[c])
    /\ "SIGLADES" \notin DOMAIN req[c].body
    /\ req[c].pc = "responded"
    /\ req[c].resp.status = 422

(* C2: for a schema-valid record, a categorical value outside the bundle's list *)
(* for its field raises no error: the classifier is invoked, a delay_proba is   *)
(* returned, and the value is encoded by the one missing code, which no in-list *)
(* value has.                                                                   *)
UnknownCategoryAnswered ==
  \A c \in Clients :
    (IsPredictRequest(req[c]) /\ WellTyped(req[c].body) /\ req[c].pc = "responded") =>
      \A f \in SevenFields :
        IF InList(req[c].body[f], f)
        THEN req[c].request_df.cat[f].code # MissingCode
        ELSE /\ req[c].resp.status = 200
             /\ "predict_proba" \in req[c].calls
             /\ "delay_proba" \in DOMAIN req[c].resp.body
             /\ req[c].request_df.cat[f].code = MissingCode

(* The encoding half of C2, which holds of every record that reaches the        *)
(* alignment: an out-of-list value gets the missing code, an in-list value      *)
(* never does.                                                                  *)
UnknownCategoryEncodedMissing ==
  \A c \in Clients :
    (IsPredictRequest(req[c]) /\ req[c].pc \in {"aligned", "responded"}
       /\ WellTyped(req[c].body)) =>
      \A f \in SevenFields :
        (req[c].request_df.cat[f].code = MissingCode) <=> ~InList(req[c].body[f], f)

(* C3: two POST /predict calls carrying the same valid record get the same      *)
(* answer, whatever was served between them.                                    *)
SameRecordSameProbability ==
  \A c, d \in Clients :
    (/\ IsPredictRequest(req[c]) /\ IsPredictRequest(req[d])
     /\ req[c].pc = "responded" /\ req[d].pc = "responded"
     /\ WellTyped(req[c].body)
     /\ req[c].body = req[d].body) =>
      req[c].resp = req[d].resp

SameRecordSameProbabilityWitness ==
  /\ req["c1"].pc = "responded" /\ req["c2"].pc = "responded"
  /\ req["c1"].origin = "client" /\ req["c2"].origin = "locust"
  /\ req["c1"].body = req["c2"].body
  /\ req["c1"].resp.status = 200
  /\ "delay_proba" \in DOMAIN req["c2"].resp.body

(* C4: every schema-valid record posted to /predict is answered 200 with a body *)
(* whose only key is delay_proba, a finite float in [0,1].                      *)
ValidRecordGetsProbability ==
  \A c \in Clients :
    (IsPredictRequest(req[c]) /\ WellTyped(req[c].body) /\ req[c].pc = "responded") =>
      /\ req[c].resp.status = 200
      /\ DOMAIN req[c].resp.body = {"delay_proba"}
      /\ IsProbability(req[c].resp.body.delay_proba)

(* What does hold of C4: a valid record whose ints all fit 64 bits is answered  *)
(* 200 with a probability.                                                      *)
Int64RecordGetsProbability ==
  \A c \in Clients :
    (/\ IsPredictRequest(req[c]) /\ WellTyped(req[c].body) /\ req[c].pc = "responded"
     /\ \A f \in EightFields : req[c].body[f].w = 0) =>
      /\ req[c].resp.status = 200
      /\ DOMAIN req[c].resp.body = {"delay_proba"}
      /\ IsProbability(req[c].resp.body.delay_proba)

(* C5: once the process serves, model_data and model are what the startup load  *)
(* read from the artifact, and the load ran exactly once.                       *)
BundleReadOnly ==
  phase = "serving" =>
    /\ model_data = artifact.bundle
    /\ model = artifact.bundle.trained_model
    /\ loads = 1

BundleReadOnlyWitness ==
  /\ phase = "serving"
  /\ req["c1"].pc = "responded" /\ req["c1"].resp.status = 200
  /\ IsPredictRequest(req["c1"])
  /\ \E f \in SevenFields : ~InList(req["c1"].body[f], f)
  /\ req["c2"].pc = "responded" /\ req["c2"].resp.status = 422

(* C6: with the artifact missing or unreadable the process never serves: no     *)
(* request is taken up and no response is produced.                             *)
NoBundleNoService ==
  artifact.state # "ok" =>
    /\ phase # "serving"
    /\ \A c \in Clients :
         /\ req[c].pc \in {"idle", "pending"}
         /\ req[c].calls = {}
         /\ req[c].resp = NoResp

NoBundleNoServiceWitness ==
  /\ artifact.state = "missing"
  /\ phase = "crashed"
  /\ req["c1"].pc = "pending" /\ IsPredictRequest(req["c1"])
  /\ req["c2"].pc = "pending" /\ IsHomeRequest(req["c2"])

(* The response a body gets from a process that serves nothing else. *)
ServedAlone(body) ==
  IF ~WellTyped(body) THEN UnprocessableEntity
  ELSE PredictResult(predict_proba(artifact.bundle.trained_model,
                                   AlignAll(DataFrame(body), artifact.bundle)))

(* C7: whatever else is in flight, a POST /predict is answered as its record    *)
(* would be if served alone.                                                    *)
RequestsIndependent ==
  \A c \in Clients :
    (IsPredictRequest(req[c]) /\ req[c].pc = "responded") =>
      req[c].resp = ServedAlone(req[c].body)

RequestsIndependentWitness ==
  /\ req["c1"].pc = "responded" /\ IsPredictRequest(req["c1"])
  /\ req["c1"].resp.status = 200
  /\ req["c2"].pc = "aligned" /\ WellTyped(req["c2"].body)
  /\ req["c1"].body # req["c2"].body
  /\ req["c1"].request_df # req["c2"].request_df

(* C8: GET / is answered 200 with the keys message and model_version, always    *)
(* with the same values; it reads no record and invokes no classifier.          *)
HomeConstant ==
  \A c \in Clients :
    (IsHomeRequest(req[c]) /\ req[c].pc = "responded") =>
      /\ req[c].resp.status = 200
      /\ {"message", "model_version"} \subseteq DOMAIN req[c].resp.body
      /\ req[c].resp.body.message = PyStr("Flight Delays API")
      /\ req[c].resp.body.model_version = PyFloat(10)
      /\ req[c].calls = {"home"}
      /\ req[c].payload = EmptyDict
      /\ req[c].request_df = NoFrame

HomeConstantWitness ==
  /\ IsHomeRequest(req["c2"]) /\ req["c2"].pc = "responded"
  /\ IsPredictRequest(req["c1"]) /\ req["c1"].pc = "responded"
  /\ req["c1"].resp.status = 200

(* C9: after the alignment exactly the seven categorical fields are expressed   *)
(* over the bundle's list for that same field, an in-list value by its position *)
(* in the list, the same on every call; TEMPORADAALTA reaches the classifier    *)
(* unchanged and unrestricted.                                                  *)
CategoricalAlignment ==
  \A c \in Clients :
    (IsPredictRequest(req[c]) /\ req[c].pc \in {"aligned", "responded"}
       /\ "predict" \in req[c].calls) =>
      /\ DOMAIN req[c].request_df.values = EightFields
      /\ DOMAIN req[c].request_df.cat = SevenFields
      /\ \A f \in SevenFields :
           /\ req[c].request_df.dtypes[f] = "category"
           /\ req[c].request_df.cat[f].categories = StoredList(f)
           /\ \A i \in 1..Len(StoredList(f)) :
                StoredList(f)[i] = req[c].body[f] =>
                  /\ req[c].request_df.cat[f].code = i - 1
                  /\ req[c].request_df.values[f] = req[c].body[f]
           /\ \A d \in Clients :
                (req[d].pc \in {"aligned", "responded"} /\ "predict" \in req[d].calls
                   /\ req[d].body[f] = req[c].body[f]) =>
                  req[d].request_df.cat[f] = req[c].request_df.cat[f]
      /\ req[c].request_df.dtypes["TEMPORADAALTA"] # "category"
      /\ req[c].request_df.values["TEMPORADAALTA"] = req[c].body["TEMPORADAALTA"]
      /\ EncodedRow(req[c].request_df)["TEMPORADAALTA"] = req[c].body["TEMPORADAALTA"].n

CategoricalAlignmentWitness ==
  /\ req["c1"].pc = "aligned" /\ req["c2"].pc = "aligned"
  /\ req["c1"].body["DIA"] = req["c2"].body["DIA"]
  /\ req["c1"].request_df.cat["DIA"].code = 1
  /\ req["c1"].request_df.cat["DIANOM"].code = 1
  /\ req["c1"].body["TEMPORADAALTA"] = PyInt(0)
  /\ req["c2"].body["TEMPORADAALTA"] = PyInt(1)

(* C10: every request of the load-test script is a POST to /predict with the    *)
(* one literal payload, which holds all eight fields well typed, so it passes   *)
(* validation and reaches predict; the user then waits between 1 and 3 seconds  *)
(* before its next request.                                                     *)
LoadTestRequestsValid ==
  \A c \in Clients :
    req[c].origin = "locust" =>
      IF req[c].pc = "waiting"
      THEN req[c].wait >= 1 /\ req[c].wait <= 3
      ELSE /\ IsPredictRequest(req[c])
           /\ WellTyped(req[c].body)
           /\ \A d \in Clients : req[d].origin = "locust" /\ req[d].pc # "waiting" =>
                req[d].body = req[c].body
           /\ req[c].pc = "responded" => req[c].resp.status # 422
           /\ (phase = "serving" /\ req[c].pc # "pending") => "predict" \in req[c].calls

LoadTestRequestsValidWitness ==
  /\ req["c1"].origin = "locust" /\ req["c1"].pc = "waiting" /\ req["c1"].wait = 3
  /\ req["c2"].origin = "locust" /\ req["c2"].pc = "responded"
  /\ req["c2"].resp.status = 200

====
